---- MODULE Spec2Model ----
(***************************************************************************)
(* Model of the flight fare prediction page (src/app.py).                  *)
(*                                                                         *)
(* The page is a Streamlit script: every interaction with a widget runs    *)
(* main() again from the top with the widgets' current values; the Predict *)
(* button is True only in the run its click triggers.  load_artifacts is   *)
(* wrapped in st.cache_resource, so its body runs once per process and its *)
(* return value (also the triple of None) is reused by every later run.    *)
(*                                                                         *)
(* Representation:                                                         *)
(*   - a text typed into a text_input is a sequence of one-character       *)
(*     strings, so that parsing is done character by character;            *)
(*   - the duration (a float with step 0.1) is counted in tenths of an     *)
(*     hour: 2.0 hours is 20;                                              *)
(*   - the scaler and the model are the objects stored in the artifact     *)
(*     files; what they do on a call is fixed by the file's contents;      *)
(*   - screen is the list of elements the last run of the script put on    *)
(*     the page, calls the list of calls it made into the artifacts, and   *)
(*     locals the local variables the try block of main assigned;          *)
(*   - submitted tells whether the last run was the one a click on Predict *)
(*     triggered, erredBefore whether a submission before the last run     *)
(*     ended in an error message.                                          *)
(***************************************************************************)
EXTENDS Integers, Sequences, FiniteSets, TLC

VARIABLES files, contents, cache, widgets, screen, calls, locals, submitted, erredBefore

vars == <<files, contents, cache, widgets, screen, calls, locals, submitted, erredBefore>>

-----------------------------------------------------------------------------
(* Bounds of the exploration *)

\* The form explored differs in at most this many widgets from one of the
\* reference forms: the form as it opens, and the form filled in for the
\* Delhi to Mumbai flight (see References).
MaxChanged == 2

-----------------------------------------------------------------------------
(* Values *)

None == "None"

\* float('nan'), the hour of pandas' NaT; never equal to an hour 0..23.
NaN == -1

airline_options == <<"Air India", "AirAsia", "GoAir", "IndiGo", "SpiceJet", "Vistara">>

city_options == <<"Bangalore", "Chennai", "Delhi", "Hyderabad", "Kolkata", "Mumbai">>

class_options == <<"Economy", "Business">>

stops_options == <<0, 1>>

Range(s) == {s[i] : i \in 1..Len(s)}

ArtifactFiles == {"flight_fare_model.joblib", "scaler.joblib", "label_encoders.joblib"}

\* What the object stored in scaler.joblib does when transform is called:
\* returns the scaled row, raises ValueError (as scikit-learn does for a row
\* of the wrong width), or raises another exception.
ScalerKinds == {"ok", "ValueError", "Exception"}

\* What the object stored in flight_fare_model.joblib does when predict is
\* called; "strict" returns a fare unless the row holds a NaN, for which it
\* raises ValueError (scikit-learn's input validation).
ModelKinds == {"ok", "strict", "ValueError", "Exception"}

\* The file contents explored: a working pair, and each way one of the two fails.
ContentsExplored ==
    {[scaler |-> "ok", model |-> m] : m \in ModelKinds}
        \cup {[scaler |-> s, model |-> "ok"] : s \in ScalerKinds}

-----------------------------------------------------------------------------
(* The texts and dates a user enters *)

T1000 == <<"1", "0", ":", "0", "0">>
T1200 == <<"1", "2", ":", "0", "0">>
T1430 == <<"1", "4", ":", "3", "0">>
T1459 == <<"1", "4", ":", "5", "9">>
T2359 == <<"2", "3", ":", "5", "9">>
T905 == <<"9", ":", "0", "5">>
T1465 == <<"1", "4", ":", "6", "5">>
T2500 == <<"2", "5", ":", "0", "0">>
Tabc == <<"a", "b", "c">>
Tnan == <<"n", "a", "n">>

TimeTexts == {T1000, T1200, T1430, T1459, T2359, T905, T1465, T2500, Tabc, Tnan}

DurationValues == {1, 20, 240}

Date(y, m, d) == [year |-> y, month |-> m, day |-> d]

JourneyDates == {Date(2024, 3, 15), Date(2024, 1, 1), Date(2024, 2, 29), Date(2023, 12, 31)}

-----------------------------------------------------------------------------
(* pd.to_datetime(text, format='%H:%M') *)

Digits == {"0", "1", "2", "3", "4", "5", "6", "7", "8", "9"}

IsDigit(c) == c \in Digits

DigitValue(c) ==
    CASE c = "0" -> 0 [] c = "1" -> 1 [] c = "2" -> 2 [] c = "3" -> 3 [] c = "4" -> 4
      [] c = "5" -> 5 [] c = "6" -> 6 [] c = "7" -> 7 [] c = "8" -> 8 [] c = "9" -> 9

\* The texts pandas reads as a missing value instead of matching them against
\* the format: its nat_strings and (since pandas 2.0) the empty text.
NatStrings ==
    {<<>>, <<"N", "a", "T">>, <<"n", "a", "t">>, <<"N", "A", "T">>,
     <<"n", "a", "n">>, <<"N", "a", "N">>, <<"N", "A", "N">>}

\* %H is the group 2[0-3]|[0-1]\d|\d of the format's regular expression.
MatchesH(s) ==
    \/ Len(s) = 2 /\ s[1] = "2" /\ s[2] \in {"0", "1", "2", "3"}
    \/ Len(s) = 2 /\ s[1] \in {"0", "1"} /\ IsDigit(s[2])
    \/ Len(s) = 1 /\ IsDigit(s[1])

\* %M is the group [0-5]\d|\d.
MatchesM(s) ==
    \/ Len(s) = 2 /\ s[1] \in {"0", "1", "2", "3", "4", "5"} /\ IsDigit(s[2])
    \/ Len(s) = 1 /\ IsDigit(s[1])

\* int() of a matched group of one or two digits.
IntOf(s) ==
    IF Len(s) = 1 THEN DigitValue(s[1]) ELSE 10 * DigitValue(s[1]) + DigitValue(s[2])

\* The positions of a ':' that splits the text into an hour and a minute group,
\* the whole text being consumed.
Splits(text) ==
    {k \in 1..Len(text) :
        /\ text[k] = ":"
        /\ MatchesH(SubSeq(text, 1, k - 1))
        /\ MatchesM(SubSeq(text, k + 1, Len(text)))}

\* The Timestamp of a text whose ':' is at position colon.
Timestamp(text, colon) ==
    [kind |-> "Timestamp",
     hour |-> IntOf(SubSeq(text, 1, colon - 1)),
     minute |-> IntOf(SubSeq(text, colon + 1, Len(text)))]

Parsed(text, colons) ==
    IF colons = {} THEN [kind |-> "ValueError"]
    ELSE Timestamp(text, CHOOSE k \in colons : TRUE)

\* The value of pd.to_datetime(text, format='%H:%M'): a Timestamp, NaT, or a
\* raised ValueError (the text does not match the format).
to_datetime(text) ==
    IF text \in NatStrings THEN [kind |-> "NaT"] ELSE Parsed(text, Splits(text))

\* HourOf, were the hour rounded to the nearest one.
HourOf_rounded(t) ==
    IF t.kind = "NaT" THEN NaN
    ELSE IF t.minute >= 30 THEN (t.hour + 1) % 24 ELSE t.hour

\* The .hour attribute: the hour of a Timestamp, nan for NaT.
HourOf(t) == IF t.kind = "NaT" THEN NaN ELSE t.hour

-----------------------------------------------------------------------------
(* datetime.date: month, day and weekday() *)

IsLeap(y) == y % 4 = 0 /\ (y % 100 # 0 \/ y % 400 = 0)

DaysInMonth(y, m) ==
    IF m = 2 THEN (IF IsLeap(y) THEN 29 ELSE 28)
    ELSE IF m \in {4, 6, 9, 11} THEN 30 ELSE 31

DaysBeforeYear(y) ==
    LET y1 == y - 1 IN y1 * 365 + (y1 \div 4) - (y1 \div 100) + (y1 \div 400)

RECURSIVE DaysBeforeMonth(_, _)
DaysBeforeMonth(y, m) ==
    IF m = 1 THEN 0 ELSE DaysBeforeMonth(y, m - 1) + DaysInMonth(y, m - 1)

ToOrdinal(d) == DaysBeforeYear(d.year) + DaysBeforeMonth(d.year, d.month) + d.day

\* Weekday, were Sunday counted as day 0.
Weekday_sundayFirst(d) == ToOrdinal(d) % 7

\* date.weekday(): Monday is 0, Sunday is 6.
Weekday(d) == (ToOrdinal(d) + 6) % 7

-----------------------------------------------------------------------------
(* list.index *)

Contains(list, v) == \E i \in 1..Len(list) : list[i] = v

\* Index, were positions counted from 1.
Index_oneBased(list, v) ==
    CHOOSE i \in 1..Len(list) : list[i] = v /\ \A j \in 1..(i - 1) : list[j] # v

\* The zero-based position of the first occurrence of v (list.index raises
\* ValueError when there is none: see Contains).
Index(list, v) ==
    (CHOOSE i \in 1..Len(list) : list[i] = v /\ \A j \in 1..(i - 1) : list[j] # v) - 1

-----------------------------------------------------------------------------
(* load_artifacts, behind st.cache_resource *)

EmptyCache == [hit |-> FALSE, value |-> <<None, None, None>>, shown |-> <<>>]

\* load_artifacts, were only the model's file needed for the triple.
load_artifacts_modelOnly(fs, cs) ==
    IF "flight_fare_model.joblib" \in fs
    THEN [value |-> <<cs.model, cs.scaler, "label_encoders">>, shown |-> <<>>]
    ELSE [value |-> <<None, None, None>>, shown |-> <<"diagnostic">>]

\* The body of load_artifacts: joblib.load of the three files; a missing one
\* raises FileNotFoundError, which shows the diagnostic and returns three None.
load_artifacts(fs, cs) ==
    IF ArtifactFiles \subseteq fs
    THEN [value |-> <<cs.model, cs.scaler, "label_encoders">>, shown |-> <<>>]
    ELSE [value |-> <<None, None, None>>, shown |-> <<"diagnostic">>]

\* st.cache_resource: the first call runs the body and keeps what it returned
\* and what it showed; a later call returns the kept value and shows the kept
\* elements again.
Kept(r) == [hit |-> TRUE, value |-> r.value, shown |-> r.shown]

cached_load_artifacts(c, fs, cs) == IF c.hit THEN c ELSE Kept(load_artifacts(fs, cs))

-----------------------------------------------------------------------------
(* The collaborators: scaler.transform and model.predict *)

transform(scaler, row) ==
    IF scaler = "ok" THEN [exc |-> "none", value |-> [scaled |-> row]]
    ELSE [exc |-> scaler, value |-> [scaled |-> <<>>]]

predict(model, x) ==
    IF model = "ok" \/ (model = "strict" /\ NaN \notin Range(x.scaled))
    THEN [exc |-> "none"]
    ELSE IF model = "strict" THEN [exc |-> "ValueError"]
    ELSE [exc |-> model]

-----------------------------------------------------------------------------
(* main: the try block of a Predict run *)

NoLocals == [n \in {} |-> 0]

\* journey_date.month, .day and .weekday()
DateFeatures(w) ==
    ("journey_month" :> w.journey_date.month)
        @@ ("journey_day" :> w.journey_date.day)
        @@ ("journey_dayofweek" :> Weekday(w.journey_date))

\* The four list.index calls, once all four values are in their lists.
Encodings(w) ==
    ("airline_enc" :> Index(airline_options, w.airline))
        @@ ("source_city_enc" :> Index(city_options, w.source_city))
        @@ ("destination_city_enc" :> Index(city_options, w.destination_city))
        @@ ("class_enc" :> Index(class_options, w.flight_class))

Encodable(w) ==
    /\ Contains(airline_options, w.airline)
    /\ Contains(city_options, w.source_city)
    /\ Contains(city_options, w.destination_city)
    /\ Contains(class_options, w.flight_class)

\* InputData, were the stops put before the duration.
InputData_stopsFirst(w, l) ==
    <<l.airline_enc, l.source_city_enc, l.destination_city_enc, w.total_stops,
      w.duration, l.class_enc, l.journey_month, l.journey_day,
      l.journey_dayofweek, l.departure_hour, l.arrival_hour>>

\* np.array([...]).reshape(1, -1): the one row handed to the scaler.
InputData(w, l) ==
    <<l.airline_enc, l.source_city_enc, l.destination_city_enc, w.duration,
      w.total_stops, l.class_enc, l.journey_month, l.journey_day,
      l.journey_dayofweek, l.departure_hour, l.arrival_hour>>

Raised(e, l, cs) == [exc |-> e, locals |-> l, calls |-> cs]

\* The two parsed texts, then the two hours read from them.
TimesParsed(l, dep, arr) ==
    IF dep.kind = "ValueError" THEN Raised("ValueError", l, <<>>)
    ELSE IF arr.kind = "ValueError"
        THEN Raised("ValueError", l @@ ("dep_time" :> dep), <<>>)
    ELSE Raised("none",
                l @@ ("dep_time" :> dep) @@ ("arr_time" :> arr)
                  @@ ("departure_hour" :> HourOf(dep))
                  @@ ("arrival_hour" :> HourOf(arr)),
                <<>>)

TimeFeatures(w, l) ==
    TimesParsed(l, to_datetime(w.departure_time), to_datetime(w.arrival_time))

\* list.index raises ValueError for a value that is not in its list.
Encode(w, l) ==
    IF Encodable(w) THEN Raised("none", l @@ Encodings(w), <<>>)
    ELSE Raised("ValueError", l, <<>>)

\* model.predict on the scaled row, after scaler.transform returned it.
Predicted(art, l, c1, scaled) ==
    Raised(predict(art[1], scaled).exc, l,
           <<c1, [fn |-> "model.predict", arg |-> scaled]>>)

Scaled(art, l, c1, t) ==
    IF t.exc # "none" THEN Raised(t.exc, l, <<c1>>) ELSE Predicted(art, l, c1, t.value)

\* scaler.transform on the row.
Scale(art, l, row) ==
    Scaled(art, l @@ ("input_data" :> row),
           [fn |-> "scaler.transform", arg |-> row], transform(art[2], row))

ScaleAndPredict(art, w, l) == Scale(art, l, InputData(w, l))

AfterEncode(art, w, e) ==
    IF e.exc # "none" THEN e ELSE ScaleAndPredict(art, w, e.locals)

AfterTimes(art, w, t) ==
    IF t.exc # "none" THEN t ELSE AfterEncode(art, w, Encode(w, t.locals))

\* The try block, statement by statement; the first exception ends it.
TryBlock(art, w) == AfterTimes(art, w, TimeFeatures(w, DateFeatures(w)))

\* The except clauses: ValueError first, then Exception.
Handler(exc) ==
    IF exc = "ValueError" THEN <<"InvalidTimeFormat">> ELSE <<"GenericError">>

\* Tried, were the details block shown after every try block.
Tried_alwaysInfo(t) ==
    [returned |-> FALSE,
     shown |-> (IF t.exc = "none" THEN <<"success">> ELSE Handler(t.exc)) \o <<"info">>,
     locals |-> t.locals,
     calls |-> t.calls]

Tried(t) ==
    [returned |-> FALSE,
     shown |-> IF t.exc = "none" THEN <<"success", "info">> ELSE Handler(t.exc),
     locals |-> t.locals,
     calls |-> t.calls]

\* PredictBranch, were the cities compared after the try block had run.
PredictBranch_validatesLast(art, w) ==
    IF w.source_city = w.destination_city
    THEN [returned |-> TRUE, shown |-> <<"InvalidRoute">>,
          locals |-> TryBlock(art, w).locals, calls |-> TryBlock(art, w).calls]
    ELSE Tried(TryBlock(art, w))

\* The Predict branch: the validation, then the try block and its messages.
PredictBranch(art, w) ==
    IF w.source_city = w.destination_city
    THEN [returned |-> TRUE, shown |-> <<"InvalidRoute">>, locals |-> NoLocals, calls |-> <<>>]
    ELSE Tried(TryBlock(art, w))

Ran(c, shown, l, cs) == [cache |-> c, screen |-> shown, locals |-> l, calls |-> cs]

\* Submitted, were the artifacts dropped when a submission ends in an error.
Submitted_losesArtifacts(c, p) ==
    Ran(IF p.shown = <<"success", "info">> THEN c
        ELSE [c EXCEPT !.value = <<None, None, None>>],
        <<"title", "form">> \o p.shown \o (IF p.returned THEN <<>> ELSE <<"footer">>),
        p.locals, p.calls)

\* The page of a Predict run: the footer is not reached after the return.
Submitted(c, p) ==
    Ran(c,
        <<"title", "form">> \o p.shown \o (IF p.returned THEN <<>> ELSE <<"footer">>),
        p.locals, p.calls)

\* main() after load_artifacts returned what the cache c holds.
Loaded(c, w, predict_button) ==
    IF c.value[1] = None THEN Ran(c, c.shown, NoLocals, <<>>)
    ELSE IF ~predict_button THEN Ran(c, <<"title", "form", "footer">>, NoLocals, <<>>)
    ELSE Submitted(c, PredictBranch(c.value, w))

\* One run of main() with the cache c, the widget values w and the button's value.
Main(c, fs, cs, w, predict_button) ==
    Loaded(cached_load_artifacts(c, fs, cs), w, predict_button)

-----------------------------------------------------------------------------
(* The form *)

\* st.date_input opens on the day the page is opened.
Today == Date(2024, 3, 15)

\* The values the widgets open with: the first option of each selectbox, the
\* default texts and the default duration.
DefaultWidgets ==
    [airline |-> airline_options[1],
     source_city |-> city_options[1],
     destination_city |-> city_options[1],
     departure_time |-> T1000,
     arrival_time |-> T1200,
     duration |-> 20,
     total_stops |-> stops_options[1],
     flight_class |-> class_options[1],
     journey_date |-> Today]

\* The form filled in for the IndiGo flight from Delhi to Mumbai.
ScenarioWidgets ==
    [DefaultWidgets EXCEPT !.airline = "IndiGo",
                           !.source_city = "Delhi",
                           !.destination_city = "Mumbai"]

References == {DefaultWidgets, ScenarioWidgets}

Distance(w, r) == Cardinality({f \in DOMAIN w : w[f] # r[f]})

Explored(w) == \E r \in References : Distance(w, r) <= MaxChanged

FormShown == "form" \in Range(screen)

ErrorMessages == {"InvalidRoute", "InvalidTimeFormat", "GenericError"}

\* The last run was a submission that ended in an error message.
Erred == submitted /\ Range(screen) \cap ErrorMessages # {}

-----------------------------------------------------------------------------
(* Actions: each is one run of the script *)

Shows(r, w, predict_button) ==
    /\ cache' = r.cache
    /\ screen' = r.screen
    /\ calls' = r.calls
    /\ locals' = r.locals
    /\ widgets' = w
    /\ submitted' = predict_button
    /\ erredBefore' = (erredBefore \/ Erred)
    /\ UNCHANGED <<files, contents>>

Run(w, predict_button) ==
    Shows(Main(cache, files, contents, w, predict_button), w, predict_button)

\* A widget's value is changed: the script runs again, the button not clicked.
Edit(f, v) ==
    /\ FormShown
    /\ v # widgets[f]
    /\ Explored([widgets EXCEPT ![f] = v])
    /\ Run([widgets EXCEPT ![f] = v], FALSE)

\* The page is opened (or reloaded): a new session, the widgets at their defaults.
OpenPage == Run(DefaultWidgets, FALSE)

SetAirline == \E v \in Range(airline_options) : Edit("airline", v)

SetSourceCity == \E v \in Range(city_options) : Edit("source_city", v)

SetDestinationCity == \E v \in Range(city_options) : Edit("destination_city", v)

SetDepartureTime == \E v \in TimeTexts : Edit("departure_time", v)

SetArrivalTime == \E v \in TimeTexts : Edit("arrival_time", v)

SetDuration == \E v \in DurationValues : Edit("duration", v)

SetTotalStops == \E v \in Range(stops_options) : Edit("total_stops", v)

SetFlightClass == \E v \in Range(class_options) : Edit("flight_class", v)

SetJourneyDate == \E v \in JourneyDates : Edit("journey_date", v)

\* The Predict button is clicked.
ClickPredict == FormShown /\ Run(widgets, TRUE)

Init ==
    /\ files \in SUBSET ArtifactFiles
    /\ contents \in ContentsExplored
    /\ cache = EmptyCache
    /\ widgets = DefaultWidgets
    /\ screen = <<>>
    /\ calls = <<>>
    /\ locals = NoLocals
    /\ submitted = FALSE
    /\ erredBefore = FALSE

Next ==
    \/ OpenPage
    \/ SetAirline
    \/ SetSourceCity
    \/ SetDestinationCity
    \/ SetDepartureTime
    \/ SetArrivalTime
    \/ SetDuration
    \/ SetTotalStops
    \/ SetFlightClass
    \/ SetJourneyDate
    \/ ClickPredict

Spec == Init /\ [][Next]_vars

-----------------------------------------------------------------------------
(* What the claims speak of *)

Shown(e) == e \in Range(screen)

Assigned(n) == n \in DOMAIN locals

SameRoute == widgets.source_city = widgets.destination_city

\* The names the try block gives to what it derives from the form.
DerivedNames ==
    {"journey_month", "journey_day", "journey_dayofweek", "dep_time", "arr_time",
     "departure_hour", "arrival_hour", "airline_enc", "source_city_enc",
     "destination_city_enc", "class_enc", "input_data"}

EncodingNames == {"airline_enc", "source_city_enc", "destination_city_enc", "class_enc"}

\* A text of the shape HH:MM, two digits each, HH in 0..23 and MM in 0..59.
WellFormed(t) ==
    /\ Len(t) = 5
    /\ t[3] = ":"
    /\ \A i \in {1, 2, 4, 5} : IsDigit(t[i])
    /\ 10 * DigitValue(t[1]) + DigitValue(t[2]) \in 0..23
    /\ 10 * DigitValue(t[4]) + DigitValue(t[5]) \in 0..59

HH(t) == 10 * DigitValue(t[1]) + DigitValue(t[2])

\* The number a text of one or two digits writes, -1 for any other text.
NumberOf(t) ==
    IF Len(t) \in {1, 2} /\ (\A i \in 1..Len(t) : IsDigit(t[i])) THEN IntOf(t) ELSE -1

\* A text that reads as a time of the 24-hour clock: an hour in 0..23, a ':',
\* a minute in 0..59.
IsClockTime(t) ==
    \E k \in 1..Len(t) :
        /\ t[k] = ":"
        /\ NumberOf(SubSeq(t, 1, k - 1)) \in 0..23
        /\ NumberOf(SubSeq(t, k + 1, Len(t))) \in 0..59

\* The zero-based position of a name in a vocabulary.
PositionIn(vocabulary, name) ==
    CHOOSE i \in 0..(Len(vocabulary) - 1) : vocabulary[i + 1] = name

\* The calendar: the day of the week of the dates explored, Monday being 0.
CalendarWeekday(d) ==
    CASE d = Date(2024, 3, 15) -> 4
      [] d = Date(2024, 1, 1) -> 0
      [] d = Date(2024, 2, 29) -> 3
      [] d = Date(2023, 12, 31) -> 6

ScalerCalls == SelectSeq(calls, LAMBDA c : c.fn = "scaler.transform")

-----------------------------------------------------------------------------
(* C1 *)

\* C1: a submission whose source city equals its destination city shows the
\* InvalidRoute message and nothing was derived for it: no local of the try
\* block was assigned, no call reached the scaler or the model, no fare is shown.
C1_InvalidRouteBeforeDerivation ==
    (submitted /\ SameRoute) =>
        /\ Shown("InvalidRoute")
        /\ DOMAIN locals \cap DerivedNames = {}
        /\ calls = <<>>
        /\ ~Shown("success")
        /\ ~Shown("InvalidTimeFormat") /\ ~Shown("GenericError")

C1_Witness ==
    /\ submitted /\ SameRoute /\ Shown("InvalidRoute")
    /\ widgets.source_city = "Delhi"
    /\ widgets.departure_time = Tabc

-----------------------------------------------------------------------------
(* C2 *)

\* C2: when any of the three artifact files is missing as load_artifacts runs,
\* every run of the script shows the diagnostic and stops before the form: no
\* form, no submission, no call to the scaler or the model.
C2_MissingArtifactHalts ==
    (cache.hit /\ files # ArtifactFiles) =>
        /\ screen = <<"diagnostic">>
        /\ ~FormShown
        /\ ~submitted
        /\ calls = <<>>

C2_Witness ==
    /\ cache.hit
    /\ files = {"flight_fare_model.joblib", "scaler.joblib"}
    /\ screen = <<"diagnostic">>

-----------------------------------------------------------------------------
(* C3 *)

\* C3: every call of the scaler's transform is given one row of exactly 11
\* values, in the order airline, source, destination, duration, stops, class,
\* month, day of month, day of week, departure hour, arrival hour.
C3_FeatureVectorOrder ==
    \A i \in 1..Len(ScalerCalls) :
        LET x == ScalerCalls[i].arg
        IN  /\ Len(x) = 11
            /\ x[1] = PositionIn(airline_options, widgets.airline)
            /\ x[2] = PositionIn(city_options, widgets.source_city)
            /\ x[3] = PositionIn(city_options, widgets.destination_city)
            /\ x[4] = widgets.duration
            /\ x[5] = widgets.total_stops
            /\ x[6] = PositionIn(class_options, widgets.flight_class)
            /\ x[7] = widgets.journey_date.month
            /\ x[8] = widgets.journey_date.day
            /\ x[9] = CalendarWeekday(widgets.journey_date)
            /\ WellFormed(widgets.departure_time) => x[10] = HH(widgets.departure_time)
            /\ WellFormed(widgets.arrival_time) => x[11] = HH(widgets.arrival_time)

C3_Witness ==
    /\ Len(ScalerCalls) = 1
    /\ widgets.flight_class = "Business"
    /\ widgets.departure_time = T2359
    /\ widgets.airline = "IndiGo"

-----------------------------------------------------------------------------
(* C4 *)

\* C4: a submission with different cities in which the departure or the arrival
\* text is not a time of the 24-hour clock shows the InvalidTimeFormat message,
\* and nothing more was done: no encoding, no call to the scaler or the model,
\* no fare.
C4_UnparseableTimeRejected ==
    (submitted /\ ~SameRoute
       /\ (~IsClockTime(widgets.departure_time) \/ ~IsClockTime(widgets.arrival_time))) =>
        /\ Shown("InvalidTimeFormat")
        /\ DOMAIN locals \cap EncodingNames = {}
        /\ calls = <<>>
        /\ ~Shown("success")

-----------------------------------------------------------------------------
(* C5 *)

\* C5: a submission with different cities and two well-formed times that does
\* not end in a fare shows the generic error, never the InvalidTimeFormat
\* message.
C5_OtherFailuresGeneric ==
    (submitted /\ ~SameRoute
       /\ IsClockTime(widgets.departure_time) /\ IsClockTime(widgets.arrival_time)
       /\ ~Shown("success")) =>
        /\ Shown("GenericError")
        /\ ~Shown("InvalidTimeFormat")

-----------------------------------------------------------------------------
(* C6 *)

\* C6: the hour derived from a well-formed text HH:MM is HH, whatever MM is.
C6_HourTruncated ==
    /\ (Assigned("departure_hour") /\ WellFormed(widgets.departure_time)) =>
           locals.departure_hour = HH(widgets.departure_time)
    /\ (Assigned("arrival_hour") /\ WellFormed(widgets.arrival_time)) =>
           locals.arrival_hour = HH(widgets.arrival_time)

C6_Witness ==
    /\ Assigned("departure_hour") /\ Assigned("arrival_hour")
    /\ widgets.departure_time = T1459 /\ locals.departure_hour = 14
    /\ widgets.arrival_time = T2359 /\ locals.arrival_hour = 23

-----------------------------------------------------------------------------
(* C7 *)

\* The query of the scenario: IndiGo, Delhi to Mumbai, 2.0 hours, no stop,
\* Economy, 2024-03-15, 10:00 to 12:00.
ScenarioQuery ==
    [airline |-> "IndiGo",
     source_city |-> "Delhi",
     destination_city |-> "Mumbai",
     departure_time |-> T1000,
     arrival_time |-> T1200,
     duration |-> 20,
     total_stops |-> 0,
     flight_class |-> "Economy",
     journey_date |-> Date(2024, 3, 15)]

\* C7: the scenario's query hands the scaler the row [IndiGo's, Delhi's and
\* Mumbai's positions, 2.0, 0, Economy's position, 3, 15, 4, 10, 12]; and every
\* date is decomposed into its month 1..12, its day 1..31 and its day of the
\* week, Monday being 0 and Sunday 6.
C7_ScenarioVector ==
    /\ (submitted /\ widgets = ScenarioQuery) =>
        /\ Len(ScalerCalls) = 1
        /\ ScalerCalls[1].arg =
              <<PositionIn(airline_options, "IndiGo"),
                PositionIn(city_options, "Delhi"),
                PositionIn(city_options, "Mumbai"),
                20, 0, PositionIn(class_options, "Economy"), 3, 15, 4, 10, 12>>
    /\ Assigned("journey_dayofweek") =>
        /\ locals.journey_month = widgets.journey_date.month
        /\ locals.journey_month \in 1..12
        /\ locals.journey_day = widgets.journey_date.day
        /\ locals.journey_day \in 1..31
        /\ locals.journey_dayofweek = CalendarWeekday(widgets.journey_date)

C7_Witness == submitted /\ widgets = ScenarioQuery /\ Shown("success")

-----------------------------------------------------------------------------
(* C8 *)

Decodes(vocabulary, code, name) ==
    /\ code \in 0..(Len(vocabulary) - 1)
    /\ vocabulary[code + 1] = name

\* C8: each categorical code of the row is the zero-based position of the chosen
\* name in its vocabulary, so that the vocabulary gives the name back; and two
\* names of one vocabulary never get the same code.
C8_EncodingRoundTrip ==
    /\ Assigned("input_data") =>
        /\ Decodes(airline_options, locals.input_data[1], widgets.airline)
        /\ Decodes(city_options, locals.input_data[2], widgets.source_city)
        /\ Decodes(city_options, locals.input_data[3], widgets.destination_city)
        /\ Decodes(class_options, locals.input_data[6], widgets.flight_class)
    /\ \A vocabulary \in {airline_options, city_options, class_options} :
          \A a, b \in Range(vocabulary) :
              a # b => Index(vocabulary, a) # Index(vocabulary, b)

C8_Witness ==
    /\ Assigned("input_data")
    /\ widgets.airline = "Vistara"
    /\ widgets.flight_class = "Business"
    /\ locals.input_data[1] = 5

-----------------------------------------------------------------------------
(* C9 *)

\* What a process that has just started shows for a submission of w.
FirstSubmission(w) == Main(EmptyCache, files, contents, w, TRUE)

\* C9: after submissions that ended in an error message the loaded artifacts
\* are the ones load_artifacts returned, the form is shown, and a submission of
\* a valid query gives the row, the calls and the page it gives as the first
\* submission of a process.
C9_ErrorsRecoverable ==
    /\ (Erred \/ erredBefore) =>
        /\ cache = Kept(load_artifacts(files, contents))
        /\ FormShown
    /\ (submitted /\ erredBefore /\ ~SameRoute
          /\ WellFormed(widgets.departure_time) /\ WellFormed(widgets.arrival_time)) =>
        /\ screen = FirstSubmission(widgets).screen
        /\ calls = FirstSubmission(widgets).calls
        /\ locals = FirstSubmission(widgets).locals

C9_Witness ==
    /\ submitted /\ erredBefore /\ ~SameRoute
    /\ WellFormed(widgets.departure_time) /\ WellFormed(widgets.arrival_time)
    /\ Shown("success")

-----------------------------------------------------------------------------
(* C10 *)

Outcomes == {"InvalidRoute", "InvalidTimeFormat", "GenericError", "success"}

\* C10: a submission shows exactly one of the three error messages and the
\* fare; the details block is shown exactly when the fare is; a fare is shown
\* only after one call of the scaler's transform followed by one call of the
\* model's predict.
C10_ExactlyOneOutcome ==
    submitted =>
        /\ Cardinality({i \in 1..Len(screen) : screen[i] \in Outcomes}) = 1
        /\ Shown("info") <=> Shown("success")
        /\ Shown("success") =>
              /\ Len(calls) = 2
              /\ calls[1].fn = "scaler.transform"
              /\ calls[2].fn = "model.predict"
              /\ calls[2].arg.scaled = calls[1].arg

C10_Witness == submitted /\ Shown("success") /\ Len(calls) = 2 /\ Shown("info")

====
